---- MODULE Spec2Model ----
(***************************************************************************)
(* Model of magma's kernel-communication engine: JupyterRuntime            *)
(* (rplugin/python3/magma/runtime.py).  The runtime polls the kernel's     *)
(* iopub queue from tick(), interprets each message in _tick_one() into    *)
(* the Output document of the running cell, and diverts the replies of a   *)
(* %magic request to a stored callback.                                    *)
(*                                                                         *)
(* tick() is modelled at the granularity of its loop: TickBegin is the     *)
(* code before `while True`, TickStep is one iteration.  The plugin is     *)
(* single threaded, so the caller's operations (run_code, run_magic,       *)
(* restart) happen only between ticks.  A call of tick never waits         *)
(* (timeout=0), so it is taken to run faster than the kernel: the kernel   *)
(* delivers messages to the iopub queue between ticks.                     *)
(*                                                                         *)
(* Spec is the runtime with its kernel and its caller.  SpecExecution      *)
(* runs tick over the messages of one execution fixed in advance, and      *)
(* SpecFiles is the allocation of temporary files and deinit(), and        *)
(* SpecExplorer is the variable explorer (variable_explorer.py) filling    *)
(* its buffer from %whos replies.                                          *)
(***************************************************************************)
EXTENDS Integers, Sequences, FiniteSets, TLC

\* ------------------------------------------------------------------ bounds
MaxWork == 5      \* work asked of the kernel: 2 for each request (run_code,
                  \* run_magic, restart), 1 for each output message it emits
MaxQueue == 3     \* messages waiting in the iopub queue
MaxFiles == 3     \* temporary files allocated by one runtime
MaxContent == 2   \* content messages of one execution fixed in advance
MaxCount == 2     \* execution counts an execute_input carries
MaxLines == 2     \* lines of a %whos reply after its two header lines

\* ------------------------------------------------------- program constants
STARTING == 0     \* RuntimeState.STARTING
IDLE == 1         \* RuntimeState.IDLE
RUNNING == 2      \* RuntimeState.RUNNING

None == -1        \* Python None of an Optional[int] (execution counts are >= 1)
NoneStr == "None" \* Python None of an Optional[str]

HOLD == "HOLD"          \* OutputStatus.HOLD
OS_RUNNING == "RUNNING" \* OutputStatus.RUNNING
DONE == "DONE"          \* OutputStatus.DONE

\* kernel names the runtime is constructed with: a bare name or a connection file
KernelNames == {"python3", "kernel-1.json"}
\* code strings handed to run_code and run_magic
UserCodes == {"1+1"}
MagicCodes == {"", "%whos"}

VARIABLES
    kernel_name,               \* JupyterRuntime.kernel_name
    external_kernel,           \* JupyterRuntime.external_kernel
    show_mimetype_debug,       \* options.show_mimetype_debug
    state,                     \* JupyterRuntime.state
    magic_execution_number,    \* JupyterRuntime.magic_execution_number
    waiting_for_magic,         \* JupyterRuntime.waiting_for_magic
    magic_execution_callback,  \* JupyterRuntime.magic_execution_callback
    output,                    \* the Output document the caller passes to tick
    iopub,                     \* the kernel client's iopub queue
    kernel,                    \* the kernel process: requests, phase, counters
    pc,                        \* position of the caller: "idle" or "drain" (in tick's loop)
    did_stuff,                 \* tick's local did_stuff
    ret,                       \* outcome of the last tick call
    cb_calls,                  \* invocations of magic callbacks: <<callback, stream id>>
    echoed,                    \* callbacks whose request's execute_input was dispatched
                               \* and that were not invoked since
    allocated_files,           \* JupyterRuntime.allocated_files
    files,                     \* the temporary files that exist
    kernel_shutdown,           \* kernel_client.shutdown() was called
    fev,                       \* the last operation on files and what it started from
    scenario,                  \* the messages of one execution, fixed in advance
    feed,                      \* the part of scenario the kernel has not delivered yet
    var_data,                  \* VariableExplorer.var_data
    highlighted,               \* the variables highlighted as changed in the explorer's buffer
    xev,                       \* the last operation of the explorer and what it started from
    t0,                        \* the running tick: document and state at its call,
                               \* messages dequeued, readiness progress, whether it got a
                               \* document, whether a dispatch changed document or state
    ev                         \* the last operation and what it started from

vars == <<kernel_name, external_kernel, show_mimetype_debug, state,
          magic_execution_number, waiting_for_magic, magic_execution_callback,
          output, iopub, kernel, pc, did_stuff, ret, cb_calls, echoed, t0, ev,
          allocated_files, files, kernel_shutdown, fev, scenario, feed,
          var_data, highlighted, xev>>

\* the runtime's fields, the kernel and the caller, without the temporary files
rvars == <<kernel_name, external_kernel, show_mimetype_debug, state,
           magic_execution_number, waiting_for_magic, magic_execution_callback,
           output, iopub, kernel, pc, did_stuff, ret, cb_calls, echoed, t0, ev,
           scenario, feed>>

\* the temporary files and the kernel's shutdown
fvars == <<allocated_files, files, kernel_shutdown, fev>>

\* the variable explorer
xvars == <<var_data, highlighted, xev>>

\* ------------------------------------------------------------ python values
\* truth value of an Optional[str] in `if self.waiting_for_magic`
Truthy(s) == s # NoneStr /\ s # ""

\* ".json" in kernel_name
IsConnectionFile(name) == name = "kernel-1.json"

\* ----------------------------------------------------------------- messages
\* One iopub message.  msg_type "" stands for a message without "msg_type" or
\* "content".  id is the payload (text, data, ename) of an output message: the
\* n-th output message the kernel emits carries n.  magic names the callback
\* of the run_magic request the kernel emitted the message for, and is 0 for
\* every other message (the runtime never reads it).
Msg(type, id, magic) ==
    [msg_type |-> type, id |-> id, magic |-> magic, code |-> NoneStr,
     execution_count |-> None, execution_state |-> NoneStr, name |-> NoneStr,
     wait |-> FALSE]

NoMsg == Msg("none", 0, 0)

\* the messages a kernel emits while it runs a cell, id and origin left open
OutputKinds ==
    { [msg_type |-> "stream", name |-> "stdout", wait |-> FALSE],
      [msg_type |-> "stream", name |-> "stderr", wait |-> FALSE],
      [msg_type |-> "execute_result", name |-> NoneStr, wait |-> FALSE],
      [msg_type |-> "display_data", name |-> NoneStr, wait |-> FALSE],
      [msg_type |-> "error", name |-> NoneStr, wait |-> FALSE],
      [msg_type |-> "clear_output", name |-> NoneStr, wait |-> TRUE],
      [msg_type |-> "clear_output", name |-> NoneStr, wait |-> FALSE],
      [msg_type |-> "update_display_data", name |-> NoneStr, wait |-> FALSE],
      [msg_type |-> "execute_reply", name |-> NoneStr, wait |-> FALSE],
      [msg_type |-> "comm_msg", name |-> NoneStr, wait |-> FALSE],
      [msg_type |-> "", name |-> NoneStr, wait |-> FALSE] }

\* ------------------------------------------------------------------- chunks
TextOutputChunk(id) == [kind |-> "Text", id |-> id]
ErrorOutputChunk(id) == [kind |-> "Error", id |-> id]
MimetypesOutputChunk(id) == [kind |-> "Mimetypes", id |-> id]
to_outputchunk(id) == [kind |-> "Data", id |-> id]

\* Output(None): a fresh document
Output(execution_count) ==
    [execution_count |-> execution_count, status |-> HOLD, success |-> TRUE,
     chunks |-> <<>>, should_clear |-> FALSE]

\* ------------------------------------------------------------- the runtime
\* the fields of JupyterRuntime that _tick_one reads and writes
Self ==
    [state |-> state, external_kernel |-> external_kernel,
     show_mimetype_debug |-> show_mimetype_debug,
     magic_execution_number |-> magic_execution_number,
     waiting_for_magic |-> waiting_for_magic,
     magic_execution_callback |-> magic_execution_callback]

\* __init__: external_kernel is assigned True in both branches
init_external_kernel(name) ==
    IF ~IsConnectionFile(name) THEN TRUE ELSE TRUE

\* is_ready with >= for >
is_ready_always(st) == st >= STARTING

\* is_ready(): self.state.value > RuntimeState.STARTING.value
is_ready(st) == st > STARTING

\* what _tick_one leaves behind: the runtime, the document, its return value,
\* whether it raised, and the callback it invoked (None when it invoked none)
Returns(self, out, r) ==
    [self |-> self, out |-> out, ret |-> r, raised |-> FALSE, called |-> None]

Raises(self, out) ==
    [self |-> self, out |-> out, ret |-> FALSE, raised |-> TRUE, called |-> None]

\* _tick_one, `if output._should_clear:` before the dispatch on message_type
clear_if_should(out) ==
    IF out.should_clear
    THEN [out EXCEPT !.chunks = <<>>, !.should_clear = FALSE]
    ELSE out

\* _append_chunk
append_chunk(self, out, id) ==
    LET dbg == IF self.show_mimetype_debug
               THEN Append(out.chunks, MimetypesOutputChunk(id))
               ELSE out.chunks
    IN [out EXCEPT !.chunks = Append(dbg, to_outputchunk(id))]

\* _tick_one, message_type == "execute_input"
tick_execute_input(self, out, content) ==
    IF self.waiting_for_magic = content.code /\ self.magic_execution_number = None
    THEN Returns([self EXCEPT !.magic_execution_number = content.execution_count,
                              !.waiting_for_magic = NoneStr], out, FALSE)
    ELSE LET o1 == [out EXCEPT !.execution_count = content.execution_count] IN
         IF self.external_kernel = FALSE
         THEN IF o1.status = DONE THEN Raises(self, o1)
              ELSE IF o1.status = HOLD
                   THEN Returns(self, [o1 EXCEPT !.status = OS_RUNNING], TRUE)
                   ELSE Returns(self, [o1 EXCEPT !.status = DONE], TRUE)
         ELSE Returns(self, o1, TRUE)

\* _tick_one, message_type == "status"
tick_status(self, out, content) ==
    IF content.execution_state = "starting" THEN Raises(self, out)
    ELSE IF content.execution_state = "idle"
         THEN Returns([self EXCEPT !.state = IDLE], [out EXCEPT !.status = DONE], TRUE)
    ELSE IF content.execution_state = "busy"
         THEN Returns([self EXCEPT !.state = RUNNING], out, TRUE)
    ELSE Returns(self, out, FALSE)

\* an error chunk written over the last chunk instead of appended
tick_error_overwrites(self, out, content) ==
    Returns(self,
            [out EXCEPT !.chunks = IF @ = <<>>
                                   THEN <<ErrorOutputChunk(content.id)>>
                                   ELSE [@ EXCEPT ![Len(@)] = ErrorOutputChunk(content.id)],
                        !.success = FALSE],
            TRUE)

\* an error message treated as a local fault
tick_error_raises(self, out, content) == Raises(self, out)

\* _tick_one, message_type == "error"
tick_error(self, out, content) ==
    Returns(self, [out EXCEPT !.chunks = Append(@, ErrorOutputChunk(content.id)),
                              !.success = FALSE], TRUE)

\* a stream text put in front of the chunks instead of behind them
tick_stream_prepends(self, out, content) ==
    IF self.magic_execution_number # None /\ content.name = "stdout"
    THEN [Returns([self EXCEPT !.magic_execution_number = None,
                               !.magic_execution_callback = None], out, FALSE)
            EXCEPT !.called = self.magic_execution_callback]
    ELSE Returns(self, [out EXCEPT !.chunks = <<TextOutputChunk(content.id)>> \o @], TRUE)

\* _tick_one, message_type == "stream"
tick_stream(self, out, content) ==
    IF self.magic_execution_number # None /\ content.name = "stdout"
    THEN [Returns([self EXCEPT !.magic_execution_number = None,
                               !.magic_execution_callback = None], out, FALSE)
            EXCEPT !.called = self.magic_execution_callback]
    ELSE Returns(self, [out EXCEPT !.chunks = Append(@, TextOutputChunk(content.id))], TRUE)

\* _tick_one, message_type == "clear_output"
tick_clear_output(self, out, content) ==
    IF content.wait
    THEN Returns(self, [out EXCEPT !.should_clear = TRUE], TRUE)
    ELSE Returns(self, [out EXCEPT !.chunks = <<>>], TRUE)

\* _tick_one(output, message_type, content)
tick_one(self, output0, m) ==
    LET out == clear_if_should(output0) IN
    CASE m.msg_type = "execute_input" -> tick_execute_input(self, out, m)
      [] m.msg_type = "status" -> tick_status(self, out, m)
      [] m.msg_type = "execute_reply" -> Returns(self, out, FALSE)
      [] m.msg_type = "execute_result" -> Returns(self, append_chunk(self, out, m.id), TRUE)
      [] m.msg_type = "error" -> tick_error(self, out, m)
      [] m.msg_type = "stream" -> tick_stream(self, out, m)
      [] m.msg_type = "display_data" -> Returns(self, append_chunk(self, out, m.id), TRUE)
      [] m.msg_type = "update_display_data" -> Returns(self, out, FALSE)
      [] m.msg_type = "clear_output" -> tick_clear_output(self, out, m)
      [] OTHER -> Returns(self, out, FALSE)

\* did_stuff starting out True
did_stuff_init_true == TRUE

\* tick: `did_stuff = False`
did_stuff_init == FALSE

\* tick without its early return for a missing document
output_is_none_never(with_output) == FALSE

\* tick: `if output is None:`
output_is_none(with_output) == ~with_output

\* tick: `if "content" not in message or "msg_type" not in message: continue`
is_malformed(m) == m.msg_type = ""

\* the drain loop without its break
loop_never_breaks(out) == FALSE

\* tick: `if output.status == OutputStatus.DONE: break`
loop_breaks(out) == out.status = DONE

\* tick: get_iopub_msg(timeout=0) takes the oldest queued message
next_msg(q) == Head(q)
rest_msgs(q) == Tail(q)

\* --------------------------------------------------------------- the kernel
\* The kernel serves the submitted requests in order.  For each it emits
\* status busy, execute_input with the next execution count, some
\* output messages, and status idle.  A (re)started kernel may emit status
\* starting before it serves anything.
Emit(m) == Len(iopub) < MaxQueue /\ iopub' = Append(iopub, m)

Event(op, m) ==
    [op |-> op, m |-> m, out |-> output, self |-> Self, echoed |-> echoed]

T0None ==
    [out |-> Output(None), state |-> STARTING, deq |-> 0, ready |-> FALSE,
     with_output |-> FALSE, mutated |-> FALSE]

EvNone ==
    [op |-> "none", m |-> NoMsg, out |-> Output(None), echoed |-> {},
     self |-> [state |-> STARTING, external_kernel |-> TRUE,
               show_mimetype_debug |-> FALSE, magic_execution_number |-> None,
               waiting_for_magic |-> NoneStr, magic_execution_callback |-> None]]

\* ret, t0 and ev describe the operation of the runtime that has just run;
\* any other step forgets them
Forget == ret' = "none" /\ t0' = T0None /\ ev' = EvNone

KernelUnchanged ==
    /\ pc = "idle"
    /\ Forget
    /\ UNCHANGED fvars
    /\ UNCHANGED xvars
    /\ UNCHANGED <<scenario, feed>>
    /\ UNCHANGED <<kernel_name, external_kernel, show_mimetype_debug, state,
                   magic_execution_number, waiting_for_magic, magic_execution_callback,
                   output, pc, did_stuff, cb_calls, echoed>>

KernelStart ==
    /\ kernel.phase = "starting"
    /\ \E announce \in BOOLEAN :
         IF announce
         THEN /\ Emit([Msg("status", 0, 0) EXCEPT !.execution_state = "starting"])
              /\ kernel' = [kernel EXCEPT !.phase = "idle"]
         ELSE /\ kernel' = [kernel EXCEPT !.phase = "idle"]
              /\ UNCHANGED iopub
    /\ KernelUnchanged

KernelBusy ==
    /\ kernel.phase = "idle"
    /\ kernel.req # <<>>
    /\ Emit([Msg("status", 0, Head(kernel.req).magic) EXCEPT !.execution_state = "busy"])
    /\ kernel' = [kernel EXCEPT !.phase = "busy"]
    /\ KernelUnchanged

KernelInput ==
    /\ kernel.phase = "busy"
    /\ Emit([Msg("execute_input", 0, Head(kernel.req).magic)
               EXCEPT !.code = Head(kernel.req).code,
                      !.execution_count = kernel.count + 1])
    /\ kernel' = [kernel EXCEPT !.phase = "running", !.count = @ + 1]
    /\ KernelUnchanged

KernelOutput ==
    /\ kernel.phase = "running"
    /\ kernel.work < MaxWork
    /\ \E k \in OutputKinds :
         Emit([Msg(k.msg_type, kernel.nout + 1, Head(kernel.req).magic)
                 EXCEPT !.name = k.name, !.wait = k.wait])
    /\ kernel' = [kernel EXCEPT !.nout = @ + 1, !.work = @ + 1]
    /\ KernelUnchanged

KernelIdle ==
    /\ kernel.phase = "running"
    /\ Emit([Msg("status", 0, Head(kernel.req).magic) EXCEPT !.execution_state = "idle"])
    /\ kernel' = [kernel EXCEPT !.phase = "idle", !.req = Tail(@)]
    /\ KernelUnchanged

\* ------------------------------------------------------------ the operations
RuntimeUnchanged ==
    /\ UNCHANGED <<kernel_name, external_kernel, show_mimetype_debug>>
    /\ UNCHANGED fvars
    /\ UNCHANGED xvars
    /\ UNCHANGED <<scenario, feed>>

\* the caller creates a fresh document and calls run_code(code)
RunCode ==
    /\ pc = "idle"
    /\ kernel.work + 2 <= MaxWork
    /\ \E code \in UserCodes :
         kernel' = [kernel EXCEPT !.req = Append(@, [code |-> code, magic |-> 0]),
                                  !.total = @ + 1, !.work = @ + 2]
    /\ output' = Output(None)
    /\ ev' = Event("run_code", NoMsg)
    /\ RuntimeUnchanged
    /\ ret' = "none" /\ t0' = T0None
    /\ UNCHANGED <<state, magic_execution_number, waiting_for_magic,
                   magic_execution_callback, iopub, pc, did_stuff, cb_calls, echoed>>

\* run_magic: `if self.waiting_for_magic or self.magic_execution_number is not None: return`
magic_pending(self) ==
    Truthy(self.waiting_for_magic) \/ self.magic_execution_number # None

\* the callback handed to the next run_magic call that submits code: callbacks
\* are named by the number of the execution they wait for
next_callback == kernel.total + 1

\* run_magic(code, callback)
RunMagic ==
    /\ pc = "idle"
    /\ \E code \in MagicCodes :
         IF magic_pending(Self)
         THEN /\ ev' = [Event("run_magic_noop", NoMsg) EXCEPT !.m.code = code]
              /\ UNCHANGED <<magic_execution_number, waiting_for_magic,
                             magic_execution_callback, kernel>>
         ELSE /\ kernel.work + 2 <= MaxWork
              /\ magic_execution_number' = None
              /\ waiting_for_magic' = code
              /\ magic_execution_callback' = next_callback
              /\ kernel' = [kernel EXCEPT !.req = Append(@, [code |-> code, magic |-> next_callback]),
                                          !.total = @ + 1, !.work = @ + 2]
              /\ ev' = [Event("run_magic", NoMsg) EXCEPT !.m.code = code]
    /\ RuntimeUnchanged
    /\ ret' = "none" /\ t0' = T0None
    /\ UNCHANGED <<state, output, iopub, pc, did_stuff, cb_calls, echoed>>

\* restart(): the kernel drops what it was doing and starts again
Restart ==
    /\ pc = "idle"
    /\ kernel.work + 2 <= MaxWork
    /\ state' = STARTING
    /\ kernel' = [kernel EXCEPT !.phase = "starting", !.req = <<>>, !.count = 0,
                                !.work = @ + 2]
    /\ ev' = Event("restart", NoMsg)
    /\ RuntimeUnchanged
    /\ ret' = "none" /\ t0' = T0None
    /\ UNCHANGED <<magic_execution_number, waiting_for_magic, magic_execution_callback,
                   output, iopub, pc, did_stuff, cb_calls, echoed>>

Bool(b) == IF b THEN "true" ELSE "false"

\* tick(output), up to `while True`; wait_for_ready(timeout=0) succeeds or
\* raises RuntimeError
TickBegin ==
    /\ pc = "idle"
    /\ \E with_output \in BOOLEAN, ready \in BOOLEAN :
         LET checks == ~is_ready(state)
             progress == checks /\ ready
         IN /\ (~checks => ready)
            /\ t0' = [out |-> output, state |-> state, deq |-> 0,
                      ready |-> progress, with_output |-> with_output,
                      mutated |-> FALSE]
            /\ IF checks /\ ~ready
               THEN /\ ret' = "false"
                    /\ ev' = Event("tick_not_ready", NoMsg)
                    /\ UNCHANGED <<state, pc, did_stuff>>
               ELSE /\ state' = IF checks THEN IDLE ELSE state
                    /\ did_stuff' = (with_output /\ (did_stuff_init \/ progress))
                    /\ IF output_is_none(with_output)
                       THEN /\ ret' = Bool(did_stuff_init \/ progress)
                            /\ ev' = Event("tick_none", NoMsg)
                            /\ UNCHANGED pc
                       ELSE /\ ret' = "pending"
                            /\ pc' = "drain"
                            /\ ev' = Event("tick_enter", NoMsg)
    /\ RuntimeUnchanged
    /\ UNCHANGED <<magic_execution_number, waiting_for_magic, magic_execution_callback,
                   output, iopub, kernel, cb_calls, echoed>>

\* _tick_one changed the document (chunks, execution count, status, success)
\* or the RuntimeState
Mutates(self, out, r) ==
    \/ r.out.chunks # out.chunks
    \/ r.out.execution_count # out.execution_count
    \/ r.out.status # out.status
    \/ r.out.success # out.success
    \/ r.self.state # self.state

\* one iteration of tick's `while True`
TickStep ==
    /\ pc = "drain"
    /\ RuntimeUnchanged
    /\ UNCHANGED kernel
    /\ IF iopub = <<>>
       THEN \* EmptyQueueException: break, return did_stuff
            /\ pc' = "idle"
            /\ ret' = Bool(did_stuff)
            /\ did_stuff' = FALSE
            /\ ev' = Event("empty", NoMsg)
            /\ UNCHANGED <<state, magic_execution_number, waiting_for_magic,
                           magic_execution_callback, output, iopub, cb_calls, echoed, t0>>
       ELSE LET m == next_msg(iopub)
                r == tick_one(Self, output, m)
            IN /\ iopub' = rest_msgs(iopub)
               /\ t0' = [t0 EXCEPT !.deq = @ + 1,
                                    !.mutated = @ \/ (~is_malformed(m) /\ Mutates(Self, output, r))]
               /\ IF is_malformed(m)
                  THEN /\ ev' = Event("skip", m)
                       /\ UNCHANGED <<state, magic_execution_number, waiting_for_magic,
                                      magic_execution_callback, output, pc, did_stuff,
                                      ret, cb_calls, echoed>>
                  ELSE /\ state' = r.self.state
                       /\ magic_execution_number' = r.self.magic_execution_number
                       /\ waiting_for_magic' = r.self.waiting_for_magic
                       /\ magic_execution_callback' = r.self.magic_execution_callback
                       /\ output' = r.out
                       /\ cb_calls' = IF r.called # None
                                      THEN Append(cb_calls, <<r.called, m.id>>)
                                      ELSE cb_calls
                       /\ echoed' = IF m.msg_type = "execute_input" /\ m.magic # 0
                                    THEN echoed \cup {m.magic}
                                    ELSE IF r.called # None THEN echoed \ {r.called}
                                    ELSE echoed
                       /\ IF r.raised
                          THEN /\ pc' = "idle"
                               /\ ret' = "raised"
                               /\ did_stuff' = FALSE
                               /\ ev' = Event("raise", m)
                          ELSE /\ ev' = Event("dispatch", m)
                               /\ IF loop_breaks(r.out)
                                  THEN /\ pc' = "idle"
                                       /\ ret' = Bool(did_stuff \/ r.ret)
                                       /\ did_stuff' = FALSE
                                  ELSE /\ did_stuff' = (did_stuff \/ r.ret)
                                       /\ UNCHANGED <<pc, ret>>

\* ------------------------------------------------------- variable explorer
\* A %whos reply is its text split into lines, each line split into words.
VarNames == {"x", "y"}
VarTypes == {"int", "str"}
ValueWords == {"1", "2"}

\* "Variable Type Data/Info" and the dashes under it
WhosHeader == << <<"Variable", "Type", "Data/Info">>, <<"-----">> >>

\* a line of the table, an empty line, and a value of two words
WhosLines ==
    { <<n, t, v>> : n \in VarNames, t \in VarTypes, v \in ValueWords }
    \cup { <<>>, <<"x", "int", "1", "2">> }

\* the replies: the table, or the one line of an empty namespace
WhosReplies ==
    { WhosHeader \o body :
        body \in UNION { [1..len -> WhosLines] : len \in 0..MaxLines } }
    \cup { << <<"Interactive", "namespace", "is", "empty.">> >> }

EmptyDict == [k \in {} |-> [type_ |-> "", value |-> <<>>, changed |-> FALSE]]

\* VarData(type_, value): changed defaults to False
VarData(type_, value) == [type_ |-> type_, value |-> value, changed |-> FALSE]

\* data[key] = value
DictPut(d, key, value) ==
    [k \in DOMAIN d \cup {key} |-> IF k = key THEN value ELSE d[k]]

\* parse_output_text: the loop over the lines
RECURSIVE parse_lines(_, _)
parse_lines(lines, data) ==
    IF lines = <<>> THEN data
    ELSE LET words == Head(lines) IN
         IF Len(words) < 3 THEN parse_lines(Tail(lines), data)
         ELSE parse_lines(Tail(lines),
                          DictPut(data, words[1],
                                  VarData(words[2], SubSeq(words, 3, Len(words)))))

\* parse_output_text: output.split("\n")[2:] drops the first two lines
parse_output_text(text) ==
    parse_lines(IF Len(text) <= 2 THEN <<>> ELSE SubSeq(text, 3, Len(text)), EmptyDict)

\* populate_buffer: `if key not in self.var_data or self.var_data[key] != value`;
\* VarData is a dataclass, its != compares type_, value and changed
is_changed(old, key, value) ==
    key \notin DOMAIN old \/ old[key] # value

\* populate_buffer: the loop that compares new and old data
merge_var_data(old, new) ==
    [k \in DOMAIN old \cup DOMAIN new |->
        IF k \in DOMAIN new /\ is_changed(old, k, new[k])
        THEN [new[k] EXCEPT !.changed = TRUE]
        ELSE old[k]]

XevNone == [op |-> "none", var_data |-> EmptyDict, new_data |-> EmptyDict]

\* populate_buffer(buf, output), called by whos_callback with self.buf set
PopulateBuffer ==
    /\ \E text \in WhosReplies :
         LET new_data == parse_output_text(text) IN
         /\ var_data' = merge_var_data(var_data, new_data)
         /\ highlighted' = {k \in DOMAIN var_data' : var_data'[k].changed}
         /\ xev' = [op |-> "populate", var_data |-> var_data, new_data |-> new_data]
    /\ UNCHANGED rvars
    /\ UNCHANGED fvars

\* the deferred function clears the highlight namespace after 300 ms
ClearNamespace ==
    /\ highlighted # {}
    /\ highlighted' = {}
    /\ xev' = [xev EXCEPT !.op = "cleared"]
    /\ UNCHANGED var_data
    /\ UNCHANGED rvars
    /\ UNCHANGED fvars

\* ---------------------------------------------------------- temporary files
\* names tempfile can give to a temporary file
Paths == {"tmp1", "tmp2", "tmp3"}

Range(s) == {s[i] : i \in 1..Len(s)}

FileEvent(op, path) ==
    [op |-> op, path |-> path, files |-> files, allocated_files |-> allocated_files,
     kernel_shutdown |-> kernel_shutdown]

FevNone ==
    [op |-> "none", path |-> "", files |-> {}, allocated_files |-> <<>>,
     kernel_shutdown |-> FALSE]

\* deinit: `if os.path.exists(path): os.remove(path)` for every recorded path
remove_allocated(paths, existing) == existing \ Range(paths)

\* deinit: `if self.external_kernel is False: self.kernel_client.shutdown()`
shuts_down(external) == external = FALSE

\* _alloc_file: NamedTemporaryFile(delete=False) creates a file under a name
\* that does not exist; the path is recorded after the body of the `with`
\* statement if that body did not raise
AllocFile ==
    /\ Len(allocated_files) < MaxFiles
    /\ \E path \in Paths \ files, body_ok \in BOOLEAN :
         /\ files' = files \cup {path}
         /\ allocated_files' = IF body_ok THEN Append(allocated_files, path)
                                ELSE allocated_files
         /\ fev' = FileEvent(IF body_ok THEN "alloc" ELSE "alloc_raised", path)
    /\ UNCHANGED kernel_shutdown
    /\ UNCHANGED rvars
    /\ UNCHANGED xvars

\* somebody else deletes a temporary file
RemoveFile ==
    /\ \E path \in files :
         /\ files' = files \ {path}
         /\ fev' = FileEvent("removed", path)
    /\ UNCHANGED <<allocated_files, kernel_shutdown>>
    /\ UNCHANGED rvars
    /\ UNCHANGED xvars

\* deinit()
Deinit ==
    /\ files' = remove_allocated(allocated_files, files)
    /\ kernel_shutdown' = (kernel_shutdown \/ shuts_down(external_kernel))
    /\ fev' = FileEvent("deinit", "")
    /\ UNCHANGED allocated_files
    /\ UNCHANGED rvars
    /\ UNCHANGED xvars

\* ------------------------------------------------------------ specification
Init ==
    /\ kernel_name \in KernelNames
    /\ external_kernel = init_external_kernel(kernel_name)
    /\ show_mimetype_debug \in BOOLEAN
    /\ state = STARTING
    /\ magic_execution_number = None
    /\ waiting_for_magic = NoneStr
    /\ magic_execution_callback = None
    /\ output = Output(None)
    /\ iopub = <<>>
    /\ kernel = [req |-> <<>>,
                 phase |-> IF IsConnectionFile(kernel_name) THEN "idle" ELSE "starting",
                 count |-> 0, nout |-> 0, total |-> 0, work |-> 0]
    /\ pc = "idle"
    /\ did_stuff = FALSE
    /\ ret = "none"
    /\ cb_calls = <<>>
    /\ echoed = {}
    /\ t0 = T0None
    /\ ev = EvNone
    /\ allocated_files = <<>>
    /\ files = {}
    /\ kernel_shutdown = FALSE
    /\ fev = FevNone
    /\ scenario = <<>>
    /\ feed = <<>>
    /\ var_data = EmptyDict
    /\ highlighted = {}
    /\ xev = XevNone

Next ==
    \/ KernelStart
    \/ KernelBusy
    \/ KernelInput
    \/ KernelOutput
    \/ KernelIdle
    \/ RunCode
    \/ RunMagic
    \/ Restart
    \/ TickBegin
    \/ TickStep

Spec == Init /\ [][Next]_vars

\* ------------------------------------------------ one execution, end to end
\* the content-bearing messages that are neither error nor clear_output
ContentKinds ==
    { k \in OutputKinds : k.msg_type \in {"stream", "execute_result", "display_data"} }

\* the i-th content message of an execution carries payload i
ContentMsgs(kinds) ==
    [i \in 1..Len(kinds) |->
        [Msg(kinds[i].msg_type, i, 0) EXCEPT !.name = kinds[i].name]]

\* status busy (if the kernel sends one), execute_input with count n, the
\* content messages, status idle
Execution(busy_first, n, kinds) ==
    (IF busy_first
     THEN <<[Msg("status", 0, 0) EXCEPT !.execution_state = "busy"]>>
     ELSE <<>>)
    \o <<[Msg("execute_input", 0, 0) EXCEPT !.code = "1+1", !.execution_count = n]>>
    \o ContentMsgs(kinds)
    \o <<[Msg("status", 0, 0) EXCEPT !.execution_state = "idle"]>>

Scenarios ==
    { Execution(b, n, kinds) :
        b \in BOOLEAN, n \in 1..MaxCount,
        kinds \in UNION { [1..len -> ContentKinds] : len \in 0..MaxContent } }

\* a runtime in any RuntimeState with no magic request pending, a fresh
\* document, and the messages of one execution still to be delivered
InitExecution ==
    /\ kernel_name \in KernelNames
    /\ external_kernel = init_external_kernel(kernel_name)
    /\ show_mimetype_debug \in BOOLEAN
    /\ state \in {STARTING, IDLE, RUNNING}
    /\ magic_execution_number = None
    /\ waiting_for_magic = NoneStr
    /\ magic_execution_callback = None
    /\ output = Output(None)
    /\ iopub = <<>>
    /\ kernel = [req |-> <<>>, phase |-> "idle", count |-> 0, nout |-> 0,
                 total |-> 0, work |-> 0]
    /\ pc = "idle"
    /\ did_stuff = FALSE
    /\ ret = "none"
    /\ cb_calls = <<>>
    /\ echoed = {}
    /\ t0 = T0None
    /\ ev = EvNone
    /\ allocated_files = <<>>
    /\ files = {}
    /\ kernel_shutdown = FALSE
    /\ fev = FevNone
    /\ scenario \in Scenarios
    /\ feed = scenario
    /\ var_data = EmptyDict
    /\ highlighted = {}
    /\ xev = XevNone

\* the kernel delivers the next message of the execution
Deliver ==
    /\ feed # <<>>
    /\ Emit(Head(feed))
    /\ feed' = Tail(feed)
    /\ pc = "idle"
    /\ Forget
    /\ UNCHANGED fvars
    /\ UNCHANGED xvars
    /\ UNCHANGED <<kernel_name, external_kernel, show_mimetype_debug, state,
                   magic_execution_number, waiting_for_magic, magic_execution_callback,
                   output, kernel, pc, did_stuff, cb_calls, echoed, scenario>>

NextExecution ==
    \/ Deliver
    \/ TickBegin
    \/ TickStep

SpecExecution == InitExecution /\ [][NextExecution]_vars

\* the variable explorer receiving %whos replies
NextExplorer ==
    \/ PopulateBuffer
    \/ ClearNamespace

SpecExplorer == Init /\ [][NextExplorer]_vars

\* a runtime that allocates temporary files and is shut down
NextFiles ==
    \/ AllocFile
    \/ RemoveFile
    \/ Deinit

SpecFiles == Init /\ [][NextFiles]_vars

\* -------------------------------------------------------------- properties
\* a message was handed to _tick_one by the step that has just run
Dispatched == ev.op \in {"dispatch", "raise"}

IsPrefix(a, b) == Len(a) <= Len(b) /\ SubSeq(b, 1, Len(a)) = a

\* the execute_input that _tick_one took for the echo of the pending magic code
AbsorbedEcho ==
    /\ ev.m.msg_type = "execute_input"
    /\ ev.self.waiting_for_magic = ev.m.code
    /\ ev.self.magic_execution_number = None

\* the stdout stream that _tick_one took for the reply of the magic request
MagicReply ==
    /\ ev.m.msg_type = "stream"
    /\ ev.m.name = "stdout"
    /\ ev.self.magic_execution_number # None

\* a message that appends to the document
ContentBearing ==
    \/ ev.m.msg_type \in {"execute_result", "display_data", "error"}
    \/ ev.m.msg_type = "stream" /\ ~MagicReply

\* a message that is a no-op for the document
NoOpForDocument ==
    \/ ev.m.msg_type \in {"execute_reply", "update_display_data", "comm_msg"}
    \/ AbsorbedEcho
    \/ MagicReply

SameDocument(a, b) ==
    /\ a.chunks = b.chunks
    /\ a.execution_count = b.execution_count
    /\ a.status = b.status
    /\ a.success = b.success

\* C1 (as stated): every dispatch leaves document.chunks unchanged, appends new
\* chunks at its end, or empties it; it empties it only for a clear_output,
\* immediate or deferred through the pending-clear flag.
C1_GrowsOrIsEmptied ==
    Dispatched =>
        \/ IsPrefix(ev.out.chunks, output.chunks)
        \/ /\ output.chunks = <<>>
           /\ \/ ev.out.should_clear
              \/ ev.m.msg_type = "clear_output" /\ ~ev.m.wait

\* C1 (amended): every dispatch leaves document.chunks unchanged, appends new
\* chunks at its end, empties it (clear_output with wait=false, or pending-clear
\* flag set), or, with the pending-clear flag set, replaces the whole list by
\* the chunks of the dispatched message alone; and only a clear_output with
\* wait=true sets the pending-clear flag.
C1_ChunksStep ==
    /\ Dispatched =>
        \/ IsPrefix(ev.out.chunks, output.chunks)
        \/ /\ output.chunks = <<>>
           /\ \/ ev.out.should_clear
              \/ ev.m.msg_type = "clear_output" /\ ~ev.m.wait
        \/ /\ ev.out.should_clear
           /\ ContentBearing
           /\ Len(output.chunks) \in {1, 2}
           /\ \A i \in 1..Len(output.chunks) : output.chunks[i].id = ev.m.id
    /\ output.should_clear /\ ev.op # "none" =>
        \/ Dispatched /\ ev.m.msg_type = "clear_output" /\ ev.m.wait
        \/ ~Dispatched /\ ev.out.should_clear /\ ev.op # "run_code"

\* C1 witness: a content message was dispatched to a document that had chunks
\* and a deferred clear pending, and left only its own chunk
C1_Witness ==
    /\ ev.op = "dispatch"
    /\ ev.out.should_clear
    /\ ev.out.chunks # <<>>
    /\ ContentBearing
    /\ output.chunks # <<>>
    /\ ~IsPrefix(ev.out.chunks, output.chunks)

\* C2: with a kernel the runtime spawned itself (bare kernel name), every
\* execute_input that is not the magic echo moves document.status HOLD ->
\* RUNNING or RUNNING -> DONE, and on a DONE document it is a fatal error that
\* leaves the status alone.
C2_OwnedKernelStatusAdvances ==
    /\ Dispatched
    /\ ev.m.msg_type = "execute_input"
    /\ ~AbsorbedEcho
    /\ ~IsConnectionFile(kernel_name)
    => /\ ev.out.status = HOLD => output.status = OS_RUNNING /\ ev.op = "dispatch"
       /\ ev.out.status = OS_RUNNING => output.status = DONE /\ ev.op = "dispatch"
       /\ ev.out.status = DONE => output.status = DONE /\ ev.op = "raise"

\* the tick that has just returned was called with a document while the iopub
\* queue was empty (the kernel delivers nothing while tick runs)
TickedOnEmptyQueue ==
    /\ t0.with_output
    /\ \/ ev.op = "empty" /\ t0.deq = 0
       \/ ev.op = "tick_not_ready" /\ iopub = <<>>

\* C3 (as stated): tick(document) on an empty queue returns false and leaves
\* the document unchanged, whatever the RuntimeState.
C3_EmptyQueueReturnsFalse ==
    TickedOnEmptyQueue => ret = "false" /\ output = t0.out

\* C3 (amended): tick(document) on an empty queue leaves the document
\* unchanged; it returns true when its readiness check moved RuntimeState from
\* STARTING to IDLE and false otherwise.
C3_EmptyQueueFrame ==
    TickedOnEmptyQueue =>
        /\ output = t0.out
        /\ ret = (IF t0.state = STARTING /\ state = IDLE THEN "true" ELSE "false")
        /\ t0.state # STARTING => state = t0.state

\* C3 witness: a tick on an empty queue that made the runtime ready
C3_Witness ==
    /\ TickedOnEmptyQueue
    /\ ev.op = "empty"
    /\ t0.state = STARTING
    /\ ret = "true"
    /\ output.chunks # <<>>

\* C4: clear_output with wait=false empties the chunks at once; with wait=true
\* it leaves them alone, and so does every later message that is a no-op for
\* the document; the next content-bearing message clears them and then applies
\* its own effect.
C4_DeferredClearWaitsForContent ==
    Dispatched =>
        /\ ev.m.msg_type = "clear_output" /\ ~ev.m.wait => output.chunks = <<>>
        /\ ev.m.msg_type = "clear_output" /\ ev.m.wait /\ ~ev.out.should_clear =>
               output.chunks = ev.out.chunks /\ output.should_clear
        /\ ev.out.should_clear /\ NoOpForDocument =>
               output.chunks = ev.out.chunks /\ output.should_clear
        /\ ev.out.should_clear /\ ContentBearing =>
               /\ output.chunks # <<>>
               /\ \A i \in 1..Len(output.chunks) : output.chunks[i].id = ev.m.id

\* C5: a run_magic call made while an earlier request is unresolved (its
\* callback is stored and was not invoked) submits nothing to the kernel and
\* leaves pending code, matched execution count and callback as they were.
C5_OneMagicInFlight ==
    /\ ev.op \in {"run_magic", "run_magic_noop"}
    /\ ev.self.magic_execution_callback # None
    => /\ ev.op = "run_magic_noop"
       /\ waiting_for_magic = ev.self.waiting_for_magic
       /\ magic_execution_number = ev.self.magic_execution_number
       /\ magic_execution_callback = ev.self.magic_execution_callback

\* number of invocations of callback c
Invocations(c) == Cardinality({i \in 1..Len(cb_calls) : cb_calls[i][1] = c})

\* C6: when the execute_input of an accepted run_magic(code, cb) has been
\* dispatched and a stdout stream is dispatched after it, cb is invoked with
\* that stream's payload, exactly once; the magic state is then cleared and
\* run_magic is accepted again; no callback is ever invoked twice.
C6_MagicReplyInvokesCallbackOnce ==
    /\ \A i \in 1..Len(cb_calls) : Invocations(cb_calls[i][1]) = 1
    /\ /\ ev.op = "dispatch"
       /\ ev.m.msg_type = "stream"
       /\ ev.m.name = "stdout"
       /\ ev.echoed # {}
       => /\ \A c \in ev.echoed :
               /\ Invocations(c) = 1
               /\ cb_calls[Len(cb_calls)] = <<c, ev.m.id>>
          /\ magic_execution_number = None
          /\ waiting_for_magic = NoneStr
          /\ magic_execution_callback = None
          /\ ~magic_pending(Self)

\* C7: the execute_input taken for the magic echo and the stdout stream taken
\* for the magic reply leave chunks, executionCount, status and success of the
\* document as they were, also with a deferred clear pending.
C7_MagicLeavesDocumentAlone ==
    Dispatched /\ (AbsorbedEcho \/ MagicReply) => SameDocument(output, ev.out)

\* C8: no message the kernel emits for a magic execution changes chunks,
\* status, success or executionCount of a document of a user execution (one
\* that has received the execute_input of its run_code).
C8_MagicMessagesLeaveUserDocumentAlone ==
    /\ Dispatched
    /\ ev.m.magic # 0
    /\ ev.out.execution_count # None
    => SameDocument(output, ev.out)

\* C9: tick dispatches the messages in queue order, and a dispatch that leaves
\* the document DONE ends the call with the rest of the queue untouched.
C9_DrainInOrderUntilDone ==
    [][ /\ pc = "drain" /\ iopub # <<>> =>
            /\ ev'.m = Head(iopub)
            /\ iopub' = Tail(iopub)
        /\ pc = "drain" /\ output'.status = DONE /\ ev'.op = "dispatch" =>
            /\ pc' = "idle"
            /\ ret' \in {"true", "false"}
        /\ pc = "idle" /\ pc' = "idle" /\ ev'.op # "none" => iopub' = iopub
      ]_vars

\* C9 witness: a tick dispatched at least two messages, the last one left the
\* document DONE, and a message is still queued
C9_Witness ==
    /\ ev.op = "dispatch"
    /\ t0.deq >= 2
    /\ ev.out.status # DONE
    /\ output.status = DONE
    /\ pc = "idle"
    /\ iopub # <<>>

\* the kernel was restarted: restart is the only request that is no execution
Restarted == kernel.work - kernel.nout > 2 * kernel.total

\* C10: is_ready() is false exactly in RuntimeState STARTING; restart() resets
\* the state to STARTING; a tick in STARTING either fails its readiness check
\* (returns false, stays STARTING, dequeues nothing, leaves the document alone)
\* or passes it (the state becomes IDLE and the call returns true).
C10_ReadinessCheck ==
    /\ is_ready(state) <=> state # STARTING
    /\ ev.op = "restart" => state = STARTING
    /\ ev.op \in {"tick_not_ready", "tick_none", "tick_enter"} /\ t0.state = STARTING =>
         \/ /\ ev.op = "tick_not_ready"
            /\ ret = "false"
            /\ state = STARTING
            /\ pc = "idle"
            /\ t0.deq = 0
            /\ output = t0.out
         \/ /\ ev.op # "tick_not_ready"
            /\ t0.ready
            /\ state = IDLE
    /\ ev.op = "tick_not_ready" => t0.state = STARTING
    /\ t0.ready => t0.state = STARTING
    /\ t0.ready /\ pc = "idle" /\ ret # "raised" => ret = "true"

\* C10 witness: after a restart, a tick with a document passed the readiness
\* check, found the queue empty and returned true
C10_Witness ==
    /\ Restarted
    /\ ev.op = "empty"
    /\ t0.state = STARTING
    /\ t0.ready
    /\ state = IDLE
    /\ ret = "true"

\* C11: a tick called without a document ends at once: it dequeues nothing
\* (the queue is the same after the call), invokes no magic callback, leaves
\* the magic state and the caller's document alone, and returns true exactly
\* when its own readiness check moved RuntimeState from STARTING to IDLE.
C11_TickWithoutDocument ==
    [][ /\ pc = "idle"
        /\ ev'.op \in {"tick_not_ready", "tick_none", "tick_enter"}
        /\ ~t0'.with_output
        => /\ pc' = "idle"
           /\ iopub' = iopub
           /\ t0'.deq = 0
           /\ cb_calls' = cb_calls
           /\ magic_execution_number' = magic_execution_number
           /\ waiting_for_magic' = waiting_for_magic
           /\ magic_execution_callback' = magic_execution_callback
           /\ output' = output
           /\ ret' \in {"true", "false"}
           /\ ret' = "true" <=> (state = STARTING /\ state' = IDLE)
           /\ state # STARTING => state' = state
      ]_vars

\* C11 witness: a tick without a document returned true with messages queued
\* and a magic request pending
C11_Witness ==
    /\ ev.op = "tick_none"
    /\ ~t0.with_output
    /\ ret = "true"
    /\ iopub # <<>>
    /\ magic_execution_callback # None

\* C12: an error message raises nothing: its dispatch appends exactly one Error
\* chunk carrying the message's payload (after a pending clear, if any, has
\* emptied the list), sets success to false, leaves executionCount and status
\* alone and does not end the drain loop of a document that is not DONE; an
\* idle status still takes such a document to DONE; and success, once false,
\* stays false for that document.
C12_ErrorIsRecorded ==
    [][ /\ pc = "drain" /\ iopub # <<>> /\ Head(iopub).msg_type = "error"
           => /\ ev'.op = "dispatch"
              /\ output'.chunks = Append(clear_if_should(output).chunks,
                                         ErrorOutputChunk(Head(iopub).id))
              /\ ~output'.success
              /\ output'.status = output.status
              /\ output'.execution_count = output.execution_count
              /\ output.status # DONE => pc' = "drain"
        /\ /\ pc = "drain" /\ iopub # <<>> /\ Head(iopub).msg_type = "status"
           /\ Head(iopub).execution_state = "idle"
           => /\ ev'.op = "dispatch"
              /\ output'.status = DONE
              /\ output'.success = output.success
        /\ ~output.success /\ ev'.op # "run_code" => ~output'.success
      ]_vars

\* C12 witness: an idle status took a document that holds an Error chunk and
\* has success = false to DONE
C12_Witness ==
    /\ ev.op = "dispatch"
    /\ ev.m.msg_type = "status"
    /\ ev.m.execution_state = "idle"
    /\ ev.out.status # DONE
    /\ ~ev.out.success
    /\ \E i \in 1..Len(output.chunks) : output.chunks[i].kind = "Error"
    /\ output.status = DONE
    /\ ~output.success

\* C13: deinit() shuts the kernel down when the runtime spawned it (bare kernel
\* name) and not when it attached through a connection file; either way every
\* recorded temporary file that exists is deleted, missing ones are skipped,
\* and nothing else is deleted.
C13_DeinitShutsDownOwnKernel ==
    fev.op = "deinit" =>
        /\ kernel_shutdown = ~IsConnectionFile(kernel_name)
        /\ files = fev.files \ Range(allocated_files)
        /\ allocated_files = fev.allocated_files

\* the part of C13 about files: deinit deletes exactly the recorded files that
\* exist, and a second deinit changes nothing
DeinitRemovesRecordedFiles ==
    fev.op = "deinit" =>
        /\ files = fev.files \ Range(allocated_files)
        /\ files \cap Range(allocated_files) = {}
        /\ allocated_files = fev.allocated_files

\* the tick that was called with a document has just returned a value
TickReturned ==
    /\ t0.with_output
    /\ pc = "idle"
    /\ ev.op \in {"tick_not_ready", "empty", "dispatch"}

\* C14: tick(document) returns true exactly when its readiness check moved the
\* state to IDLE or a message it dispatched changed the document or the
\* RuntimeState; when it returns false, chunks, status, success and
\* executionCount of the document are as before the call.
C14_ReturnsWhetherMutated ==
    TickReturned =>
        /\ ret = "true" <=> (t0.ready \/ t0.mutated)
        /\ ret = "false" => SameDocument(output, t0.out)

\* tick returns false and the document is not as it was
C14_FalseButMutated ==
    TickReturned /\ ret = "false" => SameDocument(output, t0.out)

\* tick returns true and neither document nor state was changed
C14_TrueButUnchanged ==
    TickReturned /\ ret = "true" => t0.ready \/ t0.mutated

\* the next iteration of tick's loop dispatches a stdout stream while an
\* execution count of a magic request is stored
ReplyIsNext ==
    /\ pc = "drain"
    /\ iopub # <<>>
    /\ Head(iopub).msg_type = "stream"
    /\ Head(iopub).name = "stdout"
    /\ magic_execution_number # None

\* C15: while a request accepted by run_magic is unresolved, every step other
\* than the dispatch of a stdout stream after the matching execute_input
\* (error, idle status, execute_reply, restart, ticks, ...) leaves it pending:
\* the callback stays stored, pending code or matched execution count stays
\* set, and no run_magic call is accepted.
C15_MagicPendingUntilReply ==
    [][ magic_execution_callback # None /\ ~ReplyIsNext
        => /\ magic_execution_callback' = magic_execution_callback
           /\ ~(waiting_for_magic' = NoneStr /\ magic_execution_number' = None)
           /\ ev'.op # "run_magic"
      ]_vars

\* C16: a status message with execution_state idle sets RuntimeState to IDLE
\* and document.status to DONE; busy sets RuntimeState to RUNNING and leaves
\* document.status alone; starting raises and changes neither RuntimeState nor
\* any field of the document; any other value changes nothing and reports no
\* progress.
C16_StatusHandling ==
    Dispatched /\ ev.m.msg_type = "status" =>
        /\ ev.m.execution_state = "idle" =>
             /\ ev.op = "dispatch"
             /\ state = IDLE
             /\ output.status = DONE
        /\ ev.m.execution_state = "busy" =>
             /\ ev.op = "dispatch"
             /\ state = RUNNING
             /\ output.status = ev.out.status
        /\ ev.m.execution_state = "starting" =>
             /\ ev.op = "raise"
             /\ state = ev.self.state
             /\ output = ev.out
        /\ ev.m.execution_state \notin {"idle", "busy", "starting"} =>
             /\ ev.op = "dispatch"
             /\ state = ev.self.state
             /\ output = ev.out

\* C17: a tick called with a document that is already DONE dequeues no message
\* and leaves the document as it was.
C17_DoneDocumentIsNotTicked ==
    t0.with_output /\ t0.out.status = DONE =>
        /\ t0.deq = 0
        /\ output = t0.out

\* the chunks one content message decodes to
DecodedChunks(m) ==
    IF m.msg_type = "stream" THEN <<TextOutputChunk(m.id)>>
    ELSE IF show_mimetype_debug
         THEN <<MimetypesOutputChunk(m.id), to_outputchunk(m.id)>>
         ELSE <<to_outputchunk(m.id)>>

RECURSIVE DecodedAll(_)
DecodedAll(msgs) ==
    IF msgs = <<>> THEN <<>>
    ELSE (IF Head(msgs).msg_type \in {"stream", "execute_result", "display_data"}
          THEN DecodedChunks(Head(msgs)) ELSE <<>>) \o DecodedAll(Tail(msgs))

\* the execute_input of the scenario
InputOf(msgs) == CHOOSE i \in 1..Len(msgs) : msgs[i].msg_type = "execute_input"

\* every message of the scenario has been delivered and dispatched
ExecutionDrained ==
    /\ scenario # <<>>
    /\ feed = <<>>
    /\ iopub = <<>>
    /\ pc = "idle"

\* C18: a fresh document ticked, in any number of calls, through execute_input
\* with count n, content messages (no error, no clear_output) and status idle,
\* with no magic request pending, ends with executionCount n, status DONE,
\* success true and the decoded chunks of the content messages in delivery
\* order.
C18_ExecutionEndToEnd ==
    ExecutionDrained =>
        /\ output.execution_count = scenario[InputOf(scenario)].execution_count
        /\ output.status = DONE
        /\ output.success
        /\ output.chunks = DecodedAll(scenario)

\* C18 witness: an execution with several content messages of different kinds
\* was drained, and the tick that finished it dequeued the idle status alone
C18_Witness ==
    /\ ExecutionDrained
    /\ Len(scenario) >= 4
    /\ \E i, j \in 1..Len(scenario) :
         /\ scenario[i].msg_type = "stream"
         /\ scenario[j].msg_type = "execute_result"
    /\ ev.op = "dispatch"
    /\ t0.deq = 1
    /\ output.status = DONE
    /\ Len(output.chunks) >= 2

\* C19: a document is DONE only after an execute_input has set its
\* executionCount.
C19_DoneImpliesExecutionCount ==
    output.status = DONE => output.execution_count # None

\* C20: a stdout stream of a user execution is never taken for the reply of a
\* magic request: its dispatch invokes no callback, keeps the magic state, and
\* appends a Text chunk with its text to the document.
C20_UserStdoutIsNotMagicReply ==
    /\ ev.op = "dispatch"
    /\ ev.m.msg_type = "stream"
    /\ ev.m.name = "stdout"
    /\ ev.m.magic = 0
    => /\ output.chunks = Append(clear_if_should(ev.out).chunks, TextOutputChunk(ev.m.id))
       /\ magic_execution_callback = ev.self.magic_execution_callback
       /\ magic_execution_number = ev.self.magic_execution_number
       /\ \A i \in 1..Len(cb_calls) : cb_calls[i][2] # ev.m.id

\* C21: populate_buffer marks a variable as changed only when it is new or its
\* type or value differs from the stored data: a variable that a reply reports
\* with the type and value already stored is not highlighted by that reply.
C21_UnchangedVariableNotMarked ==
    xev.op = "populate" =>
        \A k \in DOMAIN xev.new_data :
            /\ k \in DOMAIN xev.var_data
            /\ xev.var_data[k].type_ = xev.new_data[k].type_
            /\ xev.var_data[k].value = xev.new_data[k].value
            => k \notin highlighted

\* C22: every temporary file _alloc_file created is in the allocation list,
\* also when the body of the allocation scope raised, so after deinit() none of
\* them exists.
C22_AllocatedFilesAreRecorded ==
    /\ files \subseteq Range(allocated_files)
    /\ fev.op = "deinit" => files = {}

====
